---- MODULE Spec2Model ----
(***************************************************************************)
(* A model of the canvas gateway of src/index.js: the fetch entry point    *)
(* (preflight, authorization gate, router, failure boundary) and the six   *)
(* canvas handlers over the two key namespaces of the key-value store.     *)
(* A request is handled in steps: fetch runs up to the first store call,   *)
(* and every store call of a handler is one step.                          *)
(***************************************************************************)
EXTENDS Integers, Sequences, FiniteSets, TLC

KEY_PREFIX_METADATA == "excalidraw-canvas-meta:"
KEY_PREFIX_DATA == "excalidraw-canvas-data:"

(* Bounds of the model. *)
MaxIds == 2
MaxClock == 1

(* The identifiers crypto.randomUUID can return, as many as MaxIds. *)
IdPool == <<"u1", "u2", "u3", "u4">>
Ids == {IdPool[i] : i \in 1..MaxIds}

(* The request slots: requests in flight at the same time. *)
Procs == {"r1", "r2"}

----------------------------------------------------------------------------
(* JavaScript values. Every value is a record with a type tag t.           *)

Undefined == [t |-> "undefined"]
Null == [t |-> "null"]
Str(s) == [t |-> "string", v |-> s]
Num(n) == [t |-> "number", v |-> n]
(* A header value, kept as its sequence of characters. *)
Chars(s) == [t |-> "chars", v |-> s]
(* The text of Date.toISOString() at clock value n. *)
IsoTime(n) == [t |-> "isotime", v |-> n]
EmptyObject == [t |-> "object"]

(* Operator ! and the left side of ||: false for undefined, null, "", 0.   *)
(* (The inputs of the model hold no boolean and no NaN.)                   *)
Truthy(x) ==
  /\ x.t \notin {"undefined", "null"}
  /\ ~(x.t = "string" /\ x.v = "")
  /\ ~(x.t = "chars" /\ x.v = <<>>)
  /\ ~(x.t = "number" /\ x.v = 0)

(* x.f of a value that is neither null nor undefined. *)
Prop(x, f) == IF x.t = "object" /\ f \in DOMAIN x THEN x[f] ELSE Undefined

(* The properties an object spread {...x} copies: none unless x is an      *)
(* object.                                                                 *)
Spread(x) == IF x.t = "object" THEN x ELSE EmptyObject

(* The object literal {...base, f1: v1, ...}: over's properties replace    *)
(* base's.                                                                 *)
Assign(base, over) ==
  [f \in DOMAIN base \cup DOMAIN over |->
     IF f \in DOMAIN over THEN over[f] ELSE base[f]]

(* JSON.stringify: a property whose value is undefined is left out, at     *)
(* every depth; the result is a text.                                      *)
RECURSIVE Serializable(_)
Serializable(x) ==
  IF x.t # "object" THEN x
  ELSE [f \in {g \in DOMAIN x : g = "t" \/ x[g].t # "undefined"} |->
          IF f = "t" THEN "object" ELSE Serializable(x[f])]

Stringify(x) == [t |-> "text", ok |-> TRUE, json |-> Serializable(x)]

(* A body that is no JSON text. *)
Unparsable == [t |-> "text", ok |-> FALSE, json |-> Undefined]

(* A thrown error. *)
Error(m) == [t |-> "error", message |-> m]
IsError(x) == x.t = "error"

(* request.json() and the store's get(key, "json"): the parsed value, or   *)
(* a SyntaxError. A missing key reads as null.                             *)
ParseJson(text) ==
  IF text.t = "null" THEN Null
  ELSE IF text.ok THEN text.json ELSE Error("SyntaxError")

----------------------------------------------------------------------------
(* Strings the gate inspects, as sequences of characters.                  *)

BearerPrefix == <<"B", "e", "a", "r", "e", "r", " ">>

StartsWith(s, prefix) ==
  /\ Len(s) >= Len(prefix)
  /\ SubSeq(s, 1, Len(prefix)) = prefix

(* s.substring(n) *)
Substring(s, n) == SubSeq(s, n + 1, Len(s))

(* headers.get(name): null when the header is absent. *)
HeaderGet(headers, name) == headers[name]

(* isAuthorized without the check of the scheme prefix. *)
isAuthorized_anyScheme(request, env) ==
  LET authHeader == HeaderGet(request.headers, "Authorization") IN
  IF ~Truthy(authHeader) THEN FALSE
  ELSE Substring(authHeader.v, 7) = env.API_TOKEN

isAuthorized(request, env) ==
  LET authHeader == HeaderGet(request.headers, "Authorization") IN
  IF ~Truthy(authHeader) \/ ~StartsWith(authHeader.v, BearerPrefix) THEN FALSE
  ELSE LET token == Substring(authHeader.v, 7) IN token = env.API_TOKEN

----------------------------------------------------------------------------
(* Responses: status, headers (a set of <<name, value>>), body.            *)

AllowedMethods == "GET, POST, PUT, DELETE, PATCH, OPTIONS"
AllowedHeaders == "Content-Type, Authorization"

Plain(s) == [t |-> "plain", v |-> s]

Response(body, status, headers) ==
  [status |-> status, headers |-> headers, body |-> body]

JsonHeaders == {<<"Content-Type", "application/json">>}

HeaderSet(headers, name, value) ==
  {h \in headers : h[1] # name} \cup {<<name, value>>}

setCorsHeaders(response) ==
  [response EXCEPT !.headers =
     HeaderSet(HeaderSet(HeaderSet(response.headers,
       "Access-Control-Allow-Origin", "*"),
       "Access-Control-Allow-Methods", AllowedMethods),
       "Access-Control-Allow-Headers", AllowedHeaders)]

handleOptions(request) ==
  LET headers == request.headers IN
  IF /\ HeaderGet(headers, "Origin") # Null
     /\ HeaderGet(headers, "Access-Control-Request-Method") # Null
     /\ HeaderGet(headers, "Access-Control-Request-Headers") # Null
  THEN Response(Null, 200,
         {<<"Access-Control-Allow-Origin", "*">>,
          <<"Access-Control-Allow-Methods", AllowedMethods>>,
          <<"Access-Control-Allow-Headers", AllowedHeaders>>})
  ELSE Response(Null, 200, {<<"Allow", AllowedMethods>>})

----------------------------------------------------------------------------
(* The environment of the worker: the configured secret.                   *)

Env == [API_TOKEN |-> <<"s", "k">>]

(* The state: the store, the clock, the identifiers randomUUID has         *)
(* returned, and for every request slot the request, the position in its   *)
(* handler, the handler's locals, the response, the store calls issued so  *)
(* far (those that completed) and the store as it was when the request     *)
(* arrived.                                                                *)
(* created is a history variable: the id and body of the latest create     *)
(* that succeeded, until a later request other than a GET names that id.   *)
VARIABLES kv, clock, issued, pc, req, loc, resp, ops, snap, created

vars == <<kv, clock, issued, pc, req, loc, resp, ops, snap, created>>

(* The keys of the store, in the order list() returns them. *)
AllKeys ==
  [i \in 1..(2 * MaxIds) |->
     IF i <= MaxIds THEN <<KEY_PREFIX_DATA, IdPool[i]>>
     ELSE <<KEY_PREFIX_METADATA, IdPool[i - MaxIds]>>]

KeySet == {AllKeys[i] : i \in DOMAIN AllKeys}

(* `${prefix}${id}` *)
Key(prefix, id) == <<prefix, id>>

(* EXCALIDRAW_KV.list({prefix}).keys *)
KvList(store, prefix) ==
  LET Listed(k) == store[k] # Null /\ k[1] = prefix
  IN SelectSeq(AllKeys, Listed)

(* EXCALIDRAW_KV.get(key, "json") *)
KvGetJson(store, key) == ParseJson(store[key])

(* EXCALIDRAW_KV.put(key, text) *)
KvPut(store, key, text) == [store EXCEPT ![key] = text]

(* EXCALIDRAW_KV.delete(key) *)
KvDelete(store, key) == [store EXCEPT ![key] = Null]

HeaderNames ==
  {"Authorization", "Origin", "Access-Control-Request-Method",
   "Access-Control-Request-Headers"}

NoRequest ==
  [method |-> "", path |-> <<>>, headers |-> [n \in HeaderNames |-> Null],
   body |-> Null]
NoResponse == Response(Null, 0, {})
NoLocals == [id |-> ""]
NoCreate == [id |-> "", body |-> Null]

Init ==
  /\ kv = [k \in KeySet |-> Null]
  /\ clock = 0
  /\ issued = {}
  /\ pc = [p \in Procs |-> "idle"]
  /\ req = [p \in Procs |-> NoRequest]
  /\ loc = [p \in Procs |-> NoLocals]
  /\ resp = [p \in Procs |-> NoResponse]
  /\ ops = [p \in Procs |-> <<>>]
  /\ snap = [p \in Procs |-> [k \in KeySet |-> Null]]
  /\ created = NoCreate

----------------------------------------------------------------------------
(* The synchronous parts of the handlers. Each returns what the handler    *)
(* does up to its next store call: a response (the handler returned), an   *)
(* error (it threw) or the position of the store call with the locals.     *)

Return(response) == [t |-> "return", response |-> response]
Await(at, locals) == [t |-> "await", pc |-> at, loc |-> locals]

(* data.appState?.name: a TypeError when data is null. *)
AppStateName(data) ==
  IF data.t \in {"null", "undefined"} THEN Error("TypeError")
  ELSE LET appState == Prop(data, "appState") IN
       IF appState.t \in {"null", "undefined"} THEN Undefined
       ELSE Prop(appState, "name")

(* left || right *)
OrElse(left, right) == IF Truthy(left) THEN left ELSE right

(* handleCreateCanvas with ?? in place of ||: the default name only when   *)
(* appState.name is null or undefined.                                     *)
handleCreateCanvas_nameIfPresent(request, newId, now) ==
  LET data == ParseJson(request.body) IN
  IF IsError(data) THEN data
  ELSE LET name == AppStateName(data) IN
       IF IsError(name) THEN name
       ELSE Await("create_put_metadata",
              [id |-> newId,
               data |-> data,
               newMetadata |->
                 [t |-> "object",
                  id |-> Str(newId),
                  name |-> IF name.t \in {"undefined", "null"}
                           THEN Str("Untitled Canvas") ELSE name,
                  createdAt |-> IsoTime(now),
                  updatedAt |-> IsoTime(now),
                  userId |-> Num(0),
                  thumbnail |-> Undefined]])

(* handleCreateCanvas, lines 124-139: newId is what randomUUID returns and *)
(* now the clock's reading.                                                *)
handleCreateCanvas(request, newId, now) ==
  LET data == ParseJson(request.body) IN
  IF IsError(data) THEN data
  ELSE LET name == AppStateName(data) IN
       IF IsError(name) THEN name
       ELSE Await("create_put_metadata",
              [id |-> newId,
               data |-> data,
               newMetadata |->
                 [t |-> "object",
                  id |-> Str(newId),
                  name |-> OrElse(name, Str("Untitled Canvas")),
                  createdAt |-> IsoTime(now),
                  updatedAt |-> IsoTime(now),
                  userId |-> Num(0),
                  thumbnail |-> Undefined]])

(* handleSaveCanvas, lines 169-171. *)
handleSaveCanvas(request, id) ==
  LET data == ParseJson(request.body) IN
  IF IsError(data) THEN data
  ELSE Await("save_get", [id |-> id, data |-> data])

(* handleSaveCanvas with ?? in place of ||: the stored name is kept only   *)
(* when appState.name is null or undefined.                                *)
handleSaveCanvas_afterGet_nameIfPresent(locals, existingMetadata, now) ==
  IF ~Truthy(existingMetadata)
  THEN Return(setCorsHeaders(
         Response(Plain("Canvas metadata not found. Cannot save."), 404, {})))
  ELSE LET name == AppStateName(locals.data) IN
       IF IsError(name) THEN name
       ELSE Await("save_put_metadata",
              [id |-> locals.id,
               data |-> locals.data,
               updatedMetadata |->
                 Assign(Spread(existingMetadata),
                   [name |-> IF name.t \in {"undefined", "null"}
                             THEN Prop(existingMetadata, "name") ELSE name,
                    updatedAt |-> IsoTime(now)])])

(* handleSaveCanvas never taking the name of the body. *)
handleSaveCanvas_afterGet_keepName(locals, existingMetadata, now) ==
  IF ~Truthy(existingMetadata)
  THEN Return(setCorsHeaders(
         Response(Plain("Canvas metadata not found. Cannot save."), 404, {})))
  ELSE LET name == AppStateName(locals.data) IN
       IF IsError(name) THEN name
       ELSE Await("save_put_metadata",
              [id |-> locals.id,
               data |-> locals.data,
               updatedMetadata |->
                 Assign(Spread(existingMetadata),
                   [name |-> Prop(existingMetadata, "name"),
                    updatedAt |-> IsoTime(now)])])

(* handleSaveCanvas without the check that the metadata exists. *)
handleSaveCanvas_afterGet_upsert(locals, existingMetadata, now) ==
  LET name == AppStateName(locals.data) IN
  IF IsError(name) THEN name
  ELSE Await("save_put_metadata",
         [id |-> locals.id,
          data |-> locals.data,
          updatedMetadata |->
            Assign(Spread(existingMetadata),
              [name |-> OrElse(name, Prop(existingMetadata, "name")),
               updatedAt |-> IsoTime(now)])])

(* handleSaveCanvas, lines 173-185, once the metadata has been read. *)
handleSaveCanvas_afterGet(locals, existingMetadata, now) ==
  IF ~Truthy(existingMetadata)
  THEN Return(setCorsHeaders(
         Response(Plain("Canvas metadata not found. Cannot save."), 404, {})))
  ELSE LET name == AppStateName(locals.data) IN
       IF IsError(name) THEN name
       ELSE Await("save_put_metadata",
              [id |-> locals.id,
               data |-> locals.data,
               updatedMetadata |->
                 Assign(Spread(existingMetadata),
                   [name |-> OrElse(name, Prop(existingMetadata, "name")),
                    updatedAt |-> IsoTime(now)])])

(* handleRenameCanvas, lines 202-209. *)
handleRenameCanvas(request, id) ==
  LET body == ParseJson(request.body) IN
  IF IsError(body) THEN body
  ELSE IF body.t \in {"null", "undefined"} THEN Error("TypeError")
  ELSE LET newName == Prop(body, "name") IN
       IF ~Truthy(newName)
       THEN Return(setCorsHeaders(
              Response(Plain("New name not provided"), 400, {})))
       ELSE Await("rename_get",
              [id |-> id, newName |-> newName,
               pending |-> {KEY_PREFIX_METADATA, KEY_PREFIX_DATA},
               metadata |-> Undefined, data |-> Undefined])

(* handleRenameCanvas writing a metadata record stamped anew: createdAt    *)
(* becomes the time of the rename.                                         *)
handleRenameCanvas_afterGet_restamp(locals, metadata, data, now) ==
  IF ~Truthy(metadata)
  THEN Return(setCorsHeaders(
         Response(Plain("Canvas metadata not found. Cannot rename."), 404, {})))
  ELSE IF ~Truthy(data)
  THEN Return(setCorsHeaders(
         Response(Plain("Canvas data not found. Cannot rename."), 404, {})))
  ELSE Await("rename_put_metadata",
         [id |-> locals.id,
          updatedMetadata |->
            Assign(Spread(metadata),
              [name |-> locals.newName, createdAt |-> IsoTime(now),
               updatedAt |-> IsoTime(now)]),
          updatedData |->
            Assign(Spread(data),
              [appState |->
                 Assign(Spread(Prop(data, "appState")),
                   [name |-> locals.newName])])])

(* handleRenameCanvas replacing the appState of the data by one that holds *)
(* the name alone.                                                         *)
handleRenameCanvas_afterGet_appStateReplaced(locals, metadata, data, now) ==
  IF ~Truthy(metadata)
  THEN Return(setCorsHeaders(
         Response(Plain("Canvas metadata not found. Cannot rename."), 404, {})))
  ELSE IF ~Truthy(data)
  THEN Return(setCorsHeaders(
         Response(Plain("Canvas data not found. Cannot rename."), 404, {})))
  ELSE Await("rename_put_metadata",
         [id |-> locals.id,
          updatedMetadata |->
            Assign(Spread(metadata),
              [name |-> locals.newName, updatedAt |-> IsoTime(now)]),
          updatedData |->
            Assign(Spread(data),
              [appState |-> [t |-> "object", name |-> locals.newName]])])

(* handleRenameCanvas with the two existence checks in the other order. *)
handleRenameCanvas_afterGet_dataFirst(locals, metadata, data, now) ==
  IF ~Truthy(data)
  THEN Return(setCorsHeaders(
         Response(Plain("Canvas data not found. Cannot rename."), 404, {})))
  ELSE IF ~Truthy(metadata)
  THEN Return(setCorsHeaders(
         Response(Plain("Canvas metadata not found. Cannot rename."), 404, {})))
  ELSE Await("rename_put_metadata",
         [id |-> locals.id,
          updatedMetadata |->
            Assign(Spread(metadata),
              [name |-> locals.newName, updatedAt |-> IsoTime(now)]),
          updatedData |->
            Assign(Spread(data),
              [appState |->
                 Assign(Spread(Prop(data, "appState")),
                   [name |-> locals.newName])])])

(* handleRenameCanvas, lines 215-234, once both records have been read. *)
handleRenameCanvas_afterGet(locals, metadata, data, now) ==
  IF ~Truthy(metadata)
  THEN Return(setCorsHeaders(
         Response(Plain("Canvas metadata not found. Cannot rename."), 404, {})))
  ELSE IF ~Truthy(data)
  THEN Return(setCorsHeaders(
         Response(Plain("Canvas data not found. Cannot rename."), 404, {})))
  ELSE Await("rename_put_metadata",
         [id |-> locals.id,
          updatedMetadata |->
            Assign(Spread(metadata),
              [name |-> locals.newName, updatedAt |-> IsoTime(now)]),
          updatedData |->
            Assign(Spread(data),
              [appState |->
                 Assign(Spread(Prop(data, "appState")),
                   [name |-> locals.newName])])])

(* handleLoadCanvas, lines 157-165, once the data has been read. *)
handleLoadCanvas_afterGet(data) ==
  IF ~Truthy(data)
  THEN Return(setCorsHeaders(Response(Plain("Canvas not found"), 404, {})))
  ELSE Return(setCorsHeaders(Response(Stringify(data), 200, JsonHeaders)))

(* An array value. *)
Array(items) == [t |-> "array", items |-> items]

(* handleListCanvases, lines 101-111, once the keys have been listed. *)
handleListCanvases_afterList(keys) ==
  IF Len(keys) = 0
  THEN Return(setCorsHeaders(Response(Stringify(Array(<<>>)), 200, JsonHeaders)))
  ELSE Await("list_get",
         [keys |-> keys, pending |-> DOMAIN keys,
          metadata |-> [i \in DOMAIN keys |-> Undefined]])

(* handleListCanvases without the filter of line 114. *)
handleListCanvases_afterGet_unfiltered(metadata) ==
  Return(setCorsHeaders(
    Response(Stringify(Array(metadata)), 200, JsonHeaders)))

(* handleListCanvases, lines 114-120, once every key has been read. *)
handleListCanvases_afterGet(metadata) ==
  LET NotNull(m) == m # Null
      filteredMetadata == SelectSeq(metadata, NotNull)
  IN Return(setCorsHeaders(
       Response(Stringify(Array(filteredMetadata)), 200, JsonHeaders)))

(* url.pathname as the result of split("/"): "/api/canvases" is            *)
(* <<"", "api", "canvases">>.                                              *)
CollectionPath == <<"", "api", "canvases">>
ItemPath(id) == <<"", "api", "canvases", id>>

(* url.pathname.startsWith("/api/canvases/") *)
IsItemPath(path) == Len(path) >= 4 /\ SubSeq(path, 1, 3) = CollectionPath

(* The router, lines 18-51: the handler's first part, or the 404s. *)
route(request, newId, now) ==
  LET path == request.path
      method == request.method
      notFound == Return(setCorsHeaders(Response(Plain("Not Found"), 404, {})))
  IN
  IF path = CollectionPath THEN
    IF method = "GET" THEN Await("list", NoLocals)
    ELSE IF method = "POST" THEN handleCreateCanvas(request, newId, now)
    ELSE notFound
  ELSE IF IsItemPath(path) THEN
    LET id == path[4] IN
    IF id = "" THEN Return(Response(Plain("Not Found"), 404, {}))
    ELSE IF method = "GET" THEN Await("load_get", [id |-> id])
    ELSE IF method = "PUT" THEN handleSaveCanvas(request, id)
    ELSE IF method = "DELETE" THEN Await("delete_metadata", [id |-> id])
    ELSE IF method = "PATCH" THEN handleRenameCanvas(request, id)
    ELSE notFound
  ELSE notFound

(* The failure boundary, lines 45-48: an error becomes the 500 response.   *)
catch(outcome) ==
  IF IsError(outcome)
  THEN Return(Response(Plain(outcome.message), 500, {}))
  ELSE outcome

(* fetch with the authorization check ahead of the OPTIONS check. *)
dispatch_authorizationFirst(request, env, newId, now) ==
  IF ~isAuthorized(request, env)
  THEN Return(Response(Plain("Unauthorized"), 401, {}))
  ELSE IF request.method = "OPTIONS" THEN Return(handleOptions(request))
  ELSE catch(route(request, newId, now))

(* fetch up to the first store call, lines 5-52. *)
dispatch(request, env, newId, now) ==
  IF request.method = "OPTIONS" THEN Return(handleOptions(request))
  ELSE IF ~isAuthorized(request, env)
  THEN Return(Response(Plain("Unauthorized"), 401, {}))
  ELSE catch(route(request, newId, now))

----------------------------------------------------------------------------
(* The steps of a request in slot p.                                       *)

(* A randomUUID that may return an identifier again. *)
randomUUID_anyId == Ids

(* crypto.randomUUID(): an identifier it has not returned before.          *)
randomUUID == Ids \ issued

(* Whether fetch reaches line 125 for this request. *)
CallsRandomUUID(request, env) ==
  /\ request.method = "POST"
  /\ request.path = CollectionPath
  /\ isAuthorized(request, env)
  /\ ~IsError(ParseJson(request.body))

(* The handler returned, threw (outcome already turned into the 500), or   *)
(* waits for its next store call.                                          *)
Proceed(p, outcome) ==
  /\ pc' = [pc EXCEPT ![p] = IF outcome.t = "return" THEN "done" ELSE outcome.pc]
  /\ loc' = [loc EXCEPT ![p] = IF outcome.t = "return" THEN NoLocals ELSE outcome.loc]
  /\ resp' = [resp EXCEPT ![p] =
                IF outcome.t = "return" THEN outcome.response ELSE NoResponse]

Issue(p, op, key) == ops' = [ops EXCEPT ![p] = Append(@, <<op, key>>)]

(* A request arrives in a free slot and runs up to its first store call.   *)
fetch(p, requests) ==
  /\ pc[p] = "idle"
  /\ \E request \in requests :
       \E newId \in (IF CallsRandomUUID(request, Env) THEN randomUUID ELSE {""}) :
         /\ req' = [req EXCEPT ![p] = request]
         /\ issued' = IF CallsRandomUUID(request, Env)
                      THEN issued \cup {newId} ELSE issued
         /\ Proceed(p, dispatch(request, Env, newId, clock))
  /\ ops' = [ops EXCEPT ![p] = <<>>]
  /\ snap' = [snap EXCEPT ![p] = kv]
  /\ created' = IF /\ req'[p].method # "GET"
                   /\ IsItemPath(req'[p].path)
                   /\ req'[p].path[4] = created.id
                THEN NoCreate ELSE created
  /\ UNCHANGED <<kv, clock>>

(* The response has been sent: the slot is free again. *)
respond(p) ==
  /\ pc[p] = "done"
  /\ pc' = [pc EXCEPT ![p] = "idle"]
  /\ req' = [req EXCEPT ![p] = NoRequest]
  /\ resp' = [resp EXCEPT ![p] = NoResponse]
  /\ ops' = [ops EXCEPT ![p] = <<>>]
  /\ snap' = [snap EXCEPT ![p] = [k \in KeySet |-> Null]]
  /\ UNCHANGED <<kv, clock, issued, loc, created>>

(* line 100 *)
handleListCanvases_list(p) ==
  /\ pc[p] = "list"
  /\ Issue(p, "list", <<KEY_PREFIX_METADATA, "">>)
  /\ Proceed(p, catch(handleListCanvases_afterList(KvList(kv, KEY_PREFIX_METADATA))))
  /\ UNCHANGED <<kv, clock, issued, req, snap, created>>

(* lines 109-112: one of the gets of the Promise.all completes. *)
handleListCanvases_get(p) ==
  /\ pc[p] = "list_get"
  /\ \E i \in loc[p].pending :
       LET key == loc[p].keys[i]
           metadata == [loc[p].metadata EXCEPT ![i] = KvGetJson(kv, key)]
           pending == loc[p].pending \ {i}
       IN /\ Issue(p, "get", key)
          /\ Proceed(p,
               IF pending = {} THEN catch(handleListCanvases_afterGet(metadata))
               ELSE Await("list_get",
                      [loc[p] EXCEPT !.pending = pending, !.metadata = metadata]))
  /\ UNCHANGED <<kv, clock, issued, req, snap, created>>

(* line 141 *)
handleCreateCanvas_putMetadata(p) ==
  /\ pc[p] = "create_put_metadata"
  /\ LET metadataKey == Key(KEY_PREFIX_METADATA, loc[p].id) IN
     /\ kv' = KvPut(kv, metadataKey, Stringify(loc[p].newMetadata))
     /\ Issue(p, "put", metadataKey)
  /\ Proceed(p, Await("create_put_data", loc[p]))
  /\ UNCHANGED <<clock, issued, req, snap, created>>

(* lines 142-149 *)
handleCreateCanvas_putData(p) ==
  /\ pc[p] = "create_put_data"
  /\ LET dataKey == Key(KEY_PREFIX_DATA, loc[p].id) IN
     /\ kv' = KvPut(kv, dataKey, Stringify(loc[p].data))
     /\ Issue(p, "put", dataKey)
  /\ Proceed(p, Return(setCorsHeaders(
       Response(Stringify(loc[p].newMetadata), 201, JsonHeaders))))
  /\ created' = [id |-> loc[p].id, body |-> req[p].body]
  /\ UNCHANGED <<clock, issued, req, snap>>

(* lines 154-165 *)
handleLoadCanvas_get(p) ==
  /\ pc[p] = "load_get"
  /\ LET key == Key(KEY_PREFIX_DATA, loc[p].id) IN
     /\ Issue(p, "get", key)
     /\ Proceed(p, catch(handleLoadCanvas_afterGet(KvGetJson(kv, key))))
  /\ UNCHANGED <<kv, clock, issued, req, snap, created>>

(* lines 172-185 *)
handleSaveCanvas_get(p) ==
  /\ pc[p] = "save_get"
  /\ LET metadataKey == Key(KEY_PREFIX_METADATA, loc[p].id) IN
     /\ Issue(p, "get", metadataKey)
     /\ Proceed(p, catch(handleSaveCanvas_afterGet(
                           loc[p], KvGetJson(kv, metadataKey), clock)))
  /\ UNCHANGED <<kv, clock, issued, req, snap, created>>

(* line 186 *)
handleSaveCanvas_putMetadata(p) ==
  /\ pc[p] = "save_put_metadata"
  /\ LET metadataKey == Key(KEY_PREFIX_METADATA, loc[p].id) IN
     /\ kv' = KvPut(kv, metadataKey, Stringify(loc[p].updatedMetadata))
     /\ Issue(p, "put", metadataKey)
  /\ Proceed(p, Await("save_put_data", loc[p]))
  /\ UNCHANGED <<clock, issued, req, snap, created>>

(* A save that leaves the data key alone when it changed since the request *)
(* arrived.                                                                *)
handleSaveCanvas_putData_unlessChanged(p) ==
  /\ pc[p] = "save_put_data"
  /\ LET dataKey == Key(KEY_PREFIX_DATA, loc[p].id) IN
     /\ kv' = IF kv[dataKey] = snap[p][dataKey]
              THEN KvPut(kv, dataKey, Stringify(loc[p].data)) ELSE kv
     /\ Issue(p, "put", dataKey)
  /\ Proceed(p, Return(setCorsHeaders(Response(Null, 204, {}))))
  /\ UNCHANGED <<clock, issued, req, snap, created>>

(* lines 187-189 *)
handleSaveCanvas_putData(p) ==
  /\ pc[p] = "save_put_data"
  /\ LET dataKey == Key(KEY_PREFIX_DATA, loc[p].id) IN
     /\ kv' = KvPut(kv, dataKey, Stringify(loc[p].data))
     /\ Issue(p, "put", dataKey)
  /\ Proceed(p, Return(setCorsHeaders(Response(Null, 204, {}))))
  /\ UNCHANGED <<clock, issued, req, snap, created>>

(* A delete whose first store call removes the data key. *)
handleDeleteCanvas_deleteMetadata_dataFirst(p) ==
  /\ pc[p] = "delete_metadata"
  /\ LET dataKey == Key(KEY_PREFIX_DATA, loc[p].id) IN
     /\ kv' = KvDelete(kv, dataKey)
     /\ Issue(p, "delete", dataKey)
  /\ Proceed(p, Await("delete_data", loc[p]))
  /\ UNCHANGED <<clock, issued, req, snap, created>>

(* A delete that answers 404 when the metadata key is absent. *)
handleDeleteCanvas_deleteMetadata_ifPresent(p) ==
  /\ pc[p] = "delete_metadata"
  /\ LET metadataKey == Key(KEY_PREFIX_METADATA, loc[p].id) IN
     /\ kv' = KvDelete(kv, metadataKey)
     /\ Issue(p, "delete", metadataKey)
     /\ Proceed(p,
          IF kv[metadataKey] = Null
          THEN Return(setCorsHeaders(Response(Plain("Canvas not found"), 404, {})))
          ELSE Await("delete_data", loc[p]))
  /\ UNCHANGED <<clock, issued, req, snap, created>>

(* line 196 *)
handleDeleteCanvas_deleteMetadata(p) ==
  /\ pc[p] = "delete_metadata"
  /\ LET metadataKey == Key(KEY_PREFIX_METADATA, loc[p].id) IN
     /\ kv' = KvDelete(kv, metadataKey)
     /\ Issue(p, "delete", metadataKey)
  /\ Proceed(p, Await("delete_data", loc[p]))
  /\ UNCHANGED <<clock, issued, req, snap, created>>

(* A delete that leaves the data key. *)
handleDeleteCanvas_deleteData_keep(p) ==
  /\ pc[p] = "delete_data"
  /\ Proceed(p, Return(setCorsHeaders(Response(Null, 204, {}))))
  /\ UNCHANGED <<kv, clock, issued, req, ops, snap, created>>

(* lines 197-198 *)
handleDeleteCanvas_deleteData(p) ==
  /\ pc[p] = "delete_data"
  /\ LET dataKey == Key(KEY_PREFIX_DATA, loc[p].id) IN
     /\ kv' = KvDelete(kv, dataKey)
     /\ Issue(p, "delete", dataKey)
  /\ Proceed(p, Return(setCorsHeaders(Response(Null, 204, {}))))
  /\ UNCHANGED <<clock, issued, req, snap, created>>

(* lines 210-234: one of the two gets of the Promise.all completes. *)
handleRenameCanvas_get(p) ==
  /\ pc[p] = "rename_get"
  /\ \E prefix \in loc[p].pending :
       LET key == Key(prefix, loc[p].id)
           value == KvGetJson(kv, key)
           metadata == IF prefix = KEY_PREFIX_METADATA THEN value ELSE loc[p].metadata
           data == IF prefix = KEY_PREFIX_DATA THEN value ELSE loc[p].data
           pending == loc[p].pending \ {prefix}
       IN /\ Issue(p, "get", key)
          /\ Proceed(p,
               IF pending = {}
               THEN catch(handleRenameCanvas_afterGet(loc[p], metadata, data, clock))
               ELSE Await("rename_get",
                      [loc[p] EXCEPT !.pending = pending,
                                     !.metadata = metadata, !.data = data]))
  /\ UNCHANGED <<kv, clock, issued, req, snap, created>>

(* line 236 *)
handleRenameCanvas_putMetadata(p) ==
  /\ pc[p] = "rename_put_metadata"
  /\ LET metadataKey == Key(KEY_PREFIX_METADATA, loc[p].id) IN
     /\ kv' = KvPut(kv, metadataKey, Stringify(loc[p].updatedMetadata))
     /\ Issue(p, "put", metadataKey)
  /\ Proceed(p, Await("rename_put_data", loc[p]))
  /\ UNCHANGED <<clock, issued, req, snap, created>>

(* A rename that writes the metadata record only. *)
handleRenameCanvas_putData_skip(p) ==
  /\ pc[p] = "rename_put_data"
  /\ Proceed(p, Return(setCorsHeaders(Response(Null, 204, {}))))
  /\ UNCHANGED <<kv, clock, issued, req, ops, snap, created>>

(* lines 237-239 *)
handleRenameCanvas_putData(p) ==
  /\ pc[p] = "rename_put_data"
  /\ LET dataKey == Key(KEY_PREFIX_DATA, loc[p].id) IN
     /\ kv' = KvPut(kv, dataKey, Stringify(loc[p].updatedData))
     /\ Issue(p, "put", dataKey)
  /\ Proceed(p, Return(setCorsHeaders(Response(Null, 204, {}))))
  /\ UNCHANGED <<clock, issued, req, snap, created>>

(* Time passes: new Date() reads a later instant. *)
Tick ==
  /\ clock < MaxClock
  /\ clock' = clock + 1
  /\ UNCHANGED <<kv, issued, pc, req, loc, resp, ops, snap, created>>

StoreCalls ==
  {"list", "list_get", "create_put_metadata", "create_put_data", "load_get",
   "save_get", "save_put_metadata", "save_put_data", "delete_metadata",
   "delete_data", "rename_get", "rename_put_metadata", "rename_put_data"}

(* A failure boundary that undoes the writes of the failed request. *)
storeFails_rollback(p) ==
  /\ pc[p] \in StoreCalls
  /\ Proceed(p, catch(Error("KV error")))
  /\ kv' = snap[p]
  /\ UNCHANGED <<clock, issued, req, ops, snap, created>>

(* The store call the request in slot p waits for fails: the rejection     *)
(* reaches the failure boundary of fetch, lines 45-48, and the call has no *)
(* effect on the store.                                                    *)
storeFails(p) ==
  /\ pc[p] \in StoreCalls
  /\ Proceed(p, catch(Error("KV error")))
  /\ UNCHANGED <<kv, clock, issued, req, ops, snap, created>>

(* A store call of the request in slot p completes. *)
StoreStep(p) ==
  \/ handleListCanvases_list(p)
  \/ handleListCanvases_get(p)
  \/ handleCreateCanvas_putMetadata(p)
  \/ handleCreateCanvas_putData(p)
  \/ handleLoadCanvas_get(p)
  \/ handleSaveCanvas_get(p)
  \/ handleSaveCanvas_putMetadata(p)
  \/ handleSaveCanvas_putData(p)
  \/ handleDeleteCanvas_deleteMetadata(p)
  \/ handleDeleteCanvas_deleteData(p)
  \/ handleRenameCanvas_get(p)
  \/ handleRenameCanvas_putMetadata(p)
  \/ handleRenameCanvas_putData(p)

----------------------------------------------------------------------------
(* The requests the model sends.                                           *)

Headers(authorization, origin, requestMethod, requestHeaders) ==
  [n \in HeaderNames |->
     CASE n = "Authorization" -> authorization
       [] n = "Origin" -> origin
       [] n = "Access-Control-Request-Method" -> requestMethod
       [] OTHER -> requestHeaders]

ValidAuthorization == Chars(BearerPrefix \o Env.API_TOKEN)

(* Canvas data: a falsy value, an object without appState, and objects     *)
(* whose appState has an empty name and a name.                            *)
AppState(name) == [t |-> "object", name |-> name, zoom |-> Num(1)]
Canvas(appState) == [t |-> "object", appState |-> appState, elements |-> Str("e1")]
NoAppState == [t |-> "object", elements |-> Str("e1")]

CanvasBodies ==
  {Unparsable} \cup
  {Stringify(b) : b \in {Null, Num(0), NoAppState,
                         Canvas(AppState(Str(""))), Canvas(AppState(Str("A")))}}

(* Rename bodies: null, no name, an empty name, a name. *)
RenameBodies ==
  {Unparsable} \cup
  {Stringify(b) : b \in {Null, EmptyObject, [t |-> "object", name |-> Str("")],
                         [t |-> "object", name |-> Str("B")]}}

Request(method, path, headers, body) ==
  [method |-> method, path |-> path, headers |-> headers, body |-> body]

(* The authorized requests of the canvas routes, with every body. A GET or *)
(* DELETE carries no body, which is no JSON text.                          *)
CanvasRequests ==
  LET headers == Headers(ValidAuthorization, Null, Null, Null)
      items == {ItemPath(id) : id \in Ids}
  IN {Request("POST", CollectionPath, headers, b) : b \in CanvasBodies}
     \cup {Request("PUT", pa, headers, b) : pa \in items, b \in CanvasBodies}
     \cup {Request("PATCH", pa, headers, b) : pa \in items, b \in RenameBodies}
     \cup {Request(m, pa, headers, Unparsable) : m \in {"GET", "DELETE"}, pa \in items}
     \cup {Request("GET", CollectionPath, headers, Unparsable)}

(* Requests are handled one at a time, in slot r1. *)
Next ==
  \/ fetch("r1", CanvasRequests)
  \/ StoreStep("r1")
  \/ respond("r1")

Spec == Init /\ [][Next]_vars

(* The requests of the runs in which store calls may fail: two canvas      *)
(* bodies, a rename with and without a name.                               *)
FewRequests ==
  LET headers == Headers(ValidAuthorization, Null, Null, Null)
      items == {ItemPath(id) : id \in Ids}
      bodies == {Stringify(NoAppState), Stringify(Canvas(AppState(Str("A"))))}
  IN {Request("POST", CollectionPath, headers, b) : b \in bodies}
     \cup {Request("PUT", pa, headers, b) : pa \in items, b \in bodies}
     \cup {Request("PATCH", pa, headers, b) : pa \in items,
             b \in {Stringify(EmptyObject),
                    Stringify([t |-> "object", name |-> Str("B")])}}
     \cup {Request(m, pa, headers, Unparsable) : m \in {"GET", "DELETE"}, pa \in items}
     \cup {Request("GET", CollectionPath, headers, Unparsable)}

(* Requests one at a time, with store calls that may fail. *)
NextFail ==
  \/ fetch("r1", FewRequests)
  \/ StoreStep("r1")
  \/ storeFails("r1")
  \/ respond("r1")

SpecFail == Init /\ [][NextFail]_vars

(* The Authorization headers the gate is tried with: absent, not starting  *)
(* with "Bearer ", a token that is not the secret, and the secret.         *)
MissingAuthorization == {Null}

WrongScheme ==
  {Chars(<<>>),
   Chars(Env.API_TOKEN),
   Chars(<<"B", "a", "s", "i", "c", " ">> \o Env.API_TOKEN),
   Chars(<<"b", "e", "a", "r", "e", "r", " ">> \o Env.API_TOKEN),
   Chars(<<"B", "e", "a", "r", "e", "r">> \o Env.API_TOKEN)}

WrongToken ==
  {Chars(BearerPrefix \o <<"s">>),
   Chars(BearerPrefix \o <<"s", "k", "x">>),
   Chars(BearerPrefix \o <<" ">> \o Env.API_TOKEN)}

Authorizations ==
  MissingAuthorization \cup WrongScheme \cup WrongToken \cup {ValidAuthorization}

Present == Chars(<<"x">>)

(* Every path shape the router tells apart: the collection, an item, the   *)
(* empty id, an item with a further segment, and paths of no route.        *)
GatePaths ==
  {CollectionPath, ItemPath(""), <<"", "keys">>, <<"", "">>}
  \cup {ItemPath(id) : id \in Ids}
  \cup {ItemPath(id) \o <<"x">> : id \in Ids}

(* Requests of every method on every path with every Authorization header; *)
(* an OPTIONS request with every choice of the three preflight headers;    *)
(* with the secret, the bodies that reach every response of the handlers.  *)
GateRequests ==
  {Request("OPTIONS", pa, Headers(a, o, m, h), Unparsable) :
     pa \in GatePaths,
     a \in {Null, Chars(BearerPrefix \o <<"s">>), ValidAuthorization},
     o \in {Null, Present}, m \in {Null, Present}, h \in {Null, Present}}
  \cup {Request(m, pa, Headers(a, Present, Null, Null), Unparsable) :
     m \in {"GET", "DELETE", "HEAD", "POST", "PUT", "PATCH"},
     pa \in GatePaths, a \in Authorizations}
  \cup {Request(m, pa, Headers(ValidAuthorization, Null, Null, Null), b) :
     m \in {"POST", "PUT", "PATCH"}, pa \in GatePaths,
     b \in {Stringify(Canvas(AppState(Str("A")))),
            Stringify([t |-> "object", name |-> Str("B")])}}

NextGate ==
  \/ fetch("r1", GateRequests)
  \/ StoreStep("r1")
  \/ respond("r1")

SpecGate == Init /\ [][NextGate]_vars

(* The requests of the runs in which time passes: the requests that write. *)
ClockRequests ==
  LET headers == Headers(ValidAuthorization, Null, Null, Null)
      items == {ItemPath(id) : id \in Ids}
  IN {Request("POST", CollectionPath, headers, Stringify(Canvas(AppState(Str("A")))))}
     \cup {Request("PUT", pa, headers, Stringify(Canvas(AppState(Str("A"))))) :
             pa \in items}
     \cup {Request("PATCH", pa, headers, Stringify([t |-> "object", name |-> Str("B")])) :
             pa \in items}
     \cup {Request("DELETE", pa, headers, Unparsable) : pa \in items}

(* A store call of a request of ClockRequests completes. *)
ClockStep(p) ==
  \/ handleCreateCanvas_putMetadata(p)
  \/ handleCreateCanvas_putData(p)
  \/ handleSaveCanvas_get(p)
  \/ handleSaveCanvas_putMetadata(p)
  \/ handleSaveCanvas_putData(p)
  \/ handleDeleteCanvas_deleteMetadata(p)
  \/ handleDeleteCanvas_deleteData(p)
  \/ handleRenameCanvas_get(p)
  \/ handleRenameCanvas_putMetadata(p)
  \/ handleRenameCanvas_putData(p)

(* Requests one at a time, while time passes. *)
NextClock ==
  \/ fetch("r1", ClockRequests)
  \/ ClockStep("r1")
  \/ respond("r1")
  \/ Tick

SpecClock == Init /\ [][NextClock]_vars

(* The requests of the second slot in the runs with concurrent deletes. *)
DeleteRequests ==
  {Request("DELETE", ItemPath(id), Headers(ValidAuthorization, Null, Null, Null),
           Unparsable) : id \in Ids}

(* The requests of the first slot in the runs with concurrent deletes:     *)
(* every route but the delete, with one body each and one name, "A", in    *)
(* the create, the save and the rename.                                    *)
RaceRequests ==
  LET headers == Headers(ValidAuthorization, Null, Null, Null)
      items == {ItemPath(id) : id \in Ids}
  IN {Request("POST", CollectionPath, headers, Stringify(Canvas(AppState(Str("A")))))}
     \cup {Request("PUT", pa, headers, Stringify(Canvas(AppState(Str("A"))))) :
             pa \in items}
     \cup {Request("PATCH", pa, headers, Stringify([t |-> "object", name |-> Str("A")])) :
             pa \in items}
     \cup {Request("GET", pa, headers, Unparsable) : pa \in items}
     \cup {Request("GET", CollectionPath, headers, Unparsable)}

(* A store call of a request of RaceRequests completes. *)
RaceStep(p) ==
  \/ handleListCanvases_list(p)
  \/ handleListCanvases_get(p)
  \/ handleCreateCanvas_putMetadata(p)
  \/ handleCreateCanvas_putData(p)
  \/ handleLoadCanvas_get(p)
  \/ handleSaveCanvas_get(p)
  \/ handleSaveCanvas_putMetadata(p)
  \/ handleSaveCanvas_putData(p)
  \/ handleRenameCanvas_get(p)
  \/ handleRenameCanvas_putMetadata(p)
  \/ handleRenameCanvas_putData(p)

(* Requests one at a time in slot r1 while DELETE requests are handled in  *)
(* slot r2: the store calls of the two requests interleave in any order.   *)
(* A response is sent as soon as it is ready, before any other step: the   *)
(* sending touches nothing another request reads.                          *)
NextDelete ==
  \/ /\ \A p \in Procs : pc[p] # "done"
     /\ \/ fetch("r1", RaceRequests)
        \/ RaceStep("r1")
        \/ fetch("r2", DeleteRequests)
        \/ handleDeleteCanvas_deleteMetadata("r2")
        \/ handleDeleteCanvas_deleteData("r2")
  \/ respond("r1")
  \/ respond("r2")

SpecDelete == Init /\ [][NextDelete]_vars

(* The requests of the runs with concurrent saves: in the first slot a     *)
(* create and saves named "A", in the second slot saves named "C".         *)
SaveRequests(name) ==
  {Request("PUT", ItemPath(id), Headers(ValidAuthorization, Null, Null, Null),
           Stringify(Canvas(AppState(Str(name))))) : id \in Ids}

CreateRequests ==
  {Request("POST", CollectionPath, Headers(ValidAuthorization, Null, Null, Null),
           Stringify(Canvas(AppState(Str("A")))))}

(* A store call of a save completes. *)
SaveStep(p) ==
  \/ handleSaveCanvas_get(p)
  \/ handleSaveCanvas_putMetadata(p)
  \/ handleSaveCanvas_putData(p)

(* Creates and saves in slot r1 while saves are handled in slot r2: the    *)
(* store calls of the two requests interleave in any order.                *)
NextSave ==
  \/ fetch("r1", CreateRequests \cup SaveRequests("A"))
  \/ handleCreateCanvas_putMetadata("r1")
  \/ handleCreateCanvas_putData("r1")
  \/ SaveStep("r1")
  \/ respond("r1")
  \/ fetch("r2", SaveRequests("C"))
  \/ SaveStep("r2")
  \/ respond("r2")

SpecSave == Init /\ [][NextSave]_vars

----------------------------------------------------------------------------
(* What the properties speak of.                                           *)

InFlight(p) == pc[p] \notin {"idle", "done"}
Done(p) == pc[p] = "done"

Authorization(request) == HeaderGet(request.headers, "Authorization")

CorsHeaderSet ==
  {<<"Access-Control-Allow-Origin", "*">>,
   <<"Access-Control-Allow-Methods", "GET, POST, PUT, DELETE, PATCH, OPTIONS">>,
   <<"Access-Control-Allow-Headers", "Content-Type, Authorization">>}

(* The puts and deletes among the store calls of the request in slot p. *)
Writes(p) == {i \in DOMAIN ops[p] : ops[p][i][1] \in {"put", "delete"}}

(* The request in slot p ended because one of its store calls failed. *)
StoreFailed(p) == Done(p) /\ resp[p].body = Plain("KV error")

MetadataKey(id) == <<"excalidraw-canvas-meta:", id>>
DataKey(id) == <<"excalidraw-canvas-data:", id>>

(* The request in slot p is <method> /api/canvases/<id>. *)
OnItem(p, method, id) ==
  req[p].method = method /\ req[p].path = <<"", "api", "canvases", id>>

----------------------------------------------------------------------------
(* C1: a request that is not OPTIONS, on any path, is answered 401 exactly *)
(* when its Authorization header is missing, does not start with           *)
(* "Bearer ", or carries a token other than the secret; a rejected request *)
(* never waits for a store call, has issued none, and leaves the store as  *)
(* it was.                                                                 *)
C1_AuthorizationGate ==
  \A p \in Procs :
    req[p].method \notin {"", "OPTIONS"} =>
      LET rejected ==
            Authorization(req[p]) \in
              MissingAuthorization \cup WrongScheme \cup WrongToken
      IN /\ rejected => ~InFlight(p)
         /\ Done(p) => (resp[p].status = 401 <=> rejected)
         /\ Done(p) /\ resp[p].status = 401 => ops[p] = <<>> /\ kv = snap[p]

(* A DELETE of a stored canvas with a wrong token has been answered 401. *)
C1_Witness ==
  \E p \in Procs : \E id \in Ids :
    /\ Done(p) /\ OnItem(p, "DELETE", id)
    /\ Authorization(req[p]) \in WrongToken
    /\ resp[p].status = 401
    /\ kv[MetadataKey(id)] # Null /\ kv[DataKey(id)] # Null

(* C2: every response to a request that is not OPTIONS carries the three   *)
(* CORS headers, whatever its status.                                      *)
C2_EveryResponseCarriesCors ==
  \A p \in Procs :
    Done(p) /\ req[p].method # "OPTIONS" => CorsHeaderSet \subseteq resp[p].headers

(* C3: an OPTIONS request, with any Authorization header or none, on any   *)
(* path, never waits for a store call, is never answered 401 and leaves    *)
(* the store as it was; its response has no body and carries exactly the   *)
(* CORS header set when Origin, Access-Control-Request-Method and          *)
(* Access-Control-Request-Headers are all present, and exactly the Allow   *)
(* header otherwise.                                                       *)
C3_PreflightBeforeAuthorization ==
  \A p \in Procs :
    req[p].method = "OPTIONS" =>
      /\ ~InFlight(p)
      /\ Done(p) =>
           /\ resp[p].status # 401
           /\ ops[p] = <<>> /\ kv = snap[p]
           /\ resp[p].body = Null
           /\ resp[p].headers =
                IF \A n \in HeaderNames \ {"Authorization"} : req[p].headers[n] = Present
                THEN CorsHeaderSet
                ELSE {<<"Allow", "GET, POST, PUT, DELETE, PATCH, OPTIONS">>}

(* A preflight without Authorization header on a stored canvas has been    *)
(* answered with the CORS header set.                                      *)
C3_Witness ==
  \E p \in Procs : \E id \in Ids :
    /\ Done(p) /\ OnItem(p, "OPTIONS", id)
    /\ Authorization(req[p]) = Null
    /\ \A n \in HeaderNames \ {"Authorization"} : req[p].headers[n] = Present
    /\ resp[p].headers = CorsHeaderSet
    /\ kv[MetadataKey(id)] # Null

(* C4: with requests handled one at a time and every store call           *)
(* succeeding, whenever no request is in flight a data record exists for   *)
(* an id exactly when a metadata record exists for it.                     *)
C4_DataIffMetadata ==
  (\A p \in Procs : ~InFlight(p)) =>
    \A id \in Ids : kv[DataKey(id)] # Null <=> kv[MetadataKey(id)] # Null

(* Between requests one canvas is stored and another has been deleted. *)
C4_Witness ==
  /\ \A p \in Procs : ~InFlight(p)
  /\ \E id \in Ids : kv[DataKey(id)] # Null /\ kv[MetadataKey(id)] # Null
  /\ \E id \in issued : kv[DataKey(id)] = Null /\ kv[MetadataKey(id)] = Null

(* C5 as stated: a PUT for an id that has no metadata record is answered   *)
(* 404 and issues no put or delete, both keys of the id staying as they    *)
(* were.                                                                   *)
C5_SaveOfUnknownIdIs404 ==
  \A p \in Procs : \A id \in Ids :
    Done(p) /\ OnItem(p, "PUT", id) /\ snap[p][MetadataKey(id)] = Null =>
      /\ resp[p].status = 404
      /\ Writes(p) = {}
      /\ kv[MetadataKey(id)] = snap[p][MetadataKey(id)]
      /\ kv[DataKey(id)] = snap[p][DataKey(id)]

(* C5 amended: a PUT for an id that has no metadata record never reaches   *)
(* its puts; it is answered 404 when its body is JSON text and 500 when it *)
(* is not, has issued no put or delete, and both keys of the id are as     *)
(* before the request.                                                     *)
C5_SaveOfUnknownIdWritesNothing ==
  \A p \in Procs : \A id \in Ids :
    OnItem(p, "PUT", id) /\ snap[p][MetadataKey(id)] = Null =>
      /\ pc[p] \notin {"save_put_metadata", "save_put_data"}
      /\ Done(p) =>
           /\ resp[p].status = IF req[p].body.ok THEN 404 ELSE 500
           /\ Writes(p) = {}
           /\ kv[MetadataKey(id)] = snap[p][MetadataKey(id)]
           /\ kv[DataKey(id)] = snap[p][DataKey(id)]

(* A save of a deleted canvas, with canvas data as body, has been answered *)
(* 404 while another canvas is stored.                                     *)
C5_Witness ==
  \E p \in Procs : \E id \in issued :
    /\ Done(p) /\ OnItem(p, "PUT", id)
    /\ snap[p][MetadataKey(id)] = Null
    /\ req[p].body = Stringify(Canvas(AppState(Str("A"))))
    /\ resp[p].status = 404
    /\ kv[DataKey(id)] = Null
    /\ \E other \in Ids : kv[MetadataKey(other)] # Null

(* C6: a GET of the id of the latest successful create, with no request    *)
(* other than GETs on that id in between, is answered 200 with the body    *)
(* that was submitted.                                                     *)
C6_CreateLoadRoundTrip ==
  \A p \in Procs :
    Done(p) /\ created.id # "" /\ OnItem(p, "GET", created.id) =>
      /\ resp[p].status = 200
      /\ resp[p].body.t = "text"
      /\ ParseJson(resp[p].body) = ParseJson(created.body)

(* The name a create request submits: the name of its body's appState, or  *)
(* undefined when the body has none.                                       *)
SubmittedName(body) ==
  IF /\ body.ok
     /\ body.json.t = "object"
     /\ "appState" \in DOMAIN body.json
     /\ body.json.appState.t = "object"
     /\ "name" \in DOMAIN body.json.appState
  THEN body.json.appState.name
  ELSE Undefined

(* The ids that have a record in a store. *)
StoredIds(store) == {k[2] : k \in {j \in KeySet : store[j] # Null}}

(* What C7 says of the answer to a create whose metadata is to bear name:  *)
(* 201, a fresh id, that name, equal timestamps, both keys written and no  *)
(* record of the store overwritten.                                        *)
CreatedAs(p, name) ==
  /\ resp[p].status = 201
  /\ resp[p].body.t = "text"
  /\ LET metadata == ParseJson(resp[p].body) IN
     /\ metadata.id.v \in Ids \ StoredIds(snap[p])
     /\ metadata.name = name
     /\ metadata.createdAt = metadata.updatedAt
     /\ kv[MetadataKey(metadata.id.v)] = resp[p].body
     /\ kv[DataKey(metadata.id.v)] # Null
     /\ \A k \in KeySet : snap[p][k] # Null => kv[k] = snap[p][k]

(* C7 as stated: every POST /api/canvases is answered 201 with metadata    *)
(* of a fresh id, named after the body's appState.name when the body has   *)
(* one and "Untitled Canvas" otherwise.                                    *)
C7_CreateNamedWhenPresent ==
  \A p \in Procs :
    Done(p) /\ req[p].method = "POST" /\ req[p].path = <<"", "api", "canvases">> =>
      CreatedAs(p, IF SubmittedName(req[p].body) # Undefined
                   THEN SubmittedName(req[p].body)
                   ELSE Str("Untitled Canvas"))

(* C7 amended: a POST /api/canvases whose body is a JSON value other than  *)
(* null is answered 201 with metadata of a fresh id, named after the       *)
(* body's appState.name when that is a non-empty string and "Untitled      *)
(* Canvas" otherwise, with createdAt equal to updatedAt, both keys of the  *)
(* id existing afterwards and no other record changed; a body that is no   *)
(* JSON text or is null is answered 500 and nothing is written.            *)
C7_CreateNamedWhenNonEmpty ==
  \A p \in Procs :
    Done(p) /\ req[p].method = "POST" /\ req[p].path = <<"", "api", "canvases">> =>
      IF req[p].body.ok /\ req[p].body.json # Null
      THEN CreatedAs(p, IF SubmittedName(req[p].body) \notin {Undefined, Str("")}
                        THEN SubmittedName(req[p].body)
                        ELSE Str("Untitled Canvas"))
      ELSE resp[p].status = 500 /\ kv = snap[p]

(* A create whose appState has an empty name has been answered 201 with    *)
(* the default name while another canvas is stored.                        *)
C7_Witness ==
  \E p \in Procs :
    /\ Done(p) /\ req[p].method = "POST" /\ req[p].path = <<"", "api", "canvases">>
    /\ req[p].body = Stringify(Canvas(AppState(Str(""))))
    /\ resp[p].status = 201
    /\ ParseJson(resp[p].body).name = Str("Untitled Canvas")
    /\ StoredIds(snap[p]) # {}

(* C8: every DELETE /api/canvases/<id> is answered 204, for an id that is  *)
(* stored or not; afterwards neither key of the id exists, the records of  *)
(* the other ids are as before, and a DELETE of an id that had no record   *)
(* leaves the whole store as it was.                                       *)
C8_DeleteIdempotent ==
  \A p \in Procs : \A id \in Ids :
    Done(p) /\ OnItem(p, "DELETE", id) =>
      /\ resp[p].status = 204
      /\ kv[MetadataKey(id)] = Null /\ kv[DataKey(id)] = Null
      /\ \A k \in KeySet : k[2] # id => kv[k] = snap[p][k]
      /\ snap[p][MetadataKey(id)] = Null /\ snap[p][DataKey(id)] = Null
           => kv = snap[p]

(* A second DELETE of a canvas that was created and deleted has been       *)
(* answered 204 while another canvas is stored.                            *)
C8_Witness ==
  \E p \in Procs : \E id \in issued :
    /\ Done(p) /\ OnItem(p, "DELETE", id)
    /\ snap[p][MetadataKey(id)] = Null /\ snap[p][DataKey(id)] = Null
    /\ resp[p].status = 204
    /\ \E other \in Ids : kv[MetadataKey(other)] # Null /\ kv[DataKey(other)] # Null

(* C9: a PATCH with a name for an id whose metadata record or data record  *)
(* is missing never reaches its puts; unless one of its reads failed it is *)
(* answered 404, the metadata-not-found one when the metadata is missing   *)
(* (with or without data) and the data-not-found one otherwise, and the    *)
(* store is as before: no data record is created beside lone metadata.     *)
C9_RenameOfIncompleteCanvas ==
  \A p \in Procs : \A id \in Ids :
    /\ OnItem(p, "PATCH", id)
    /\ req[p].body.ok /\ "name" \in DOMAIN req[p].body.json
    /\ req[p].body.json.name # Str("")
    /\ snap[p][MetadataKey(id)] = Null \/ snap[p][DataKey(id)] = Null
    =>
      /\ pc[p] \notin {"rename_put_metadata", "rename_put_data"}
      /\ Done(p) /\ ~StoreFailed(p) =>
           /\ resp[p].status = 404
           /\ resp[p].body =
                IF snap[p][MetadataKey(id)] = Null
                THEN Plain("Canvas metadata not found. Cannot rename.")
                ELSE Plain("Canvas data not found. Cannot rename.")
           /\ Writes(p) = {}
           /\ kv = snap[p]

(* A rename of a canvas that has metadata but no data has been answered    *)
(* 404 and the data record is still missing.                               *)
C9_Witness ==
  \E p \in Procs : \E id \in Ids :
    /\ Done(p) /\ OnItem(p, "PATCH", id)
    /\ req[p].body = Stringify([t |-> "object", name |-> Str("B")])
    /\ snap[p][MetadataKey(id)] # Null /\ snap[p][DataKey(id)] = Null
    /\ resp[p].status = 404
    /\ kv[DataKey(id)] = Null

(* C10: a PATCH whose body is JSON without a name field is answered 400,   *)
(* whether or not the canvas exists, and issues no store call.             *)
C10_RenameWithoutNameIs400 ==
  \A p \in Procs : \A id \in Ids :
    /\ OnItem(p, "PATCH", id)
    /\ req[p].body.ok /\ "name" \notin DOMAIN req[p].body.json
    =>
      /\ ~InFlight(p)
      /\ Done(p) => resp[p].status = 400 /\ ops[p] = <<>>

(* The parsed metadata and data records of an id in a store. *)
StoredMetadata(store, id) == ParseJson(store[MetadataKey(id)])
StoredData(store, id) == ParseJson(store[DataKey(id)])

(* C11, one step: a metadata record that exists before and after the step  *)
(* keeps its id, its createdAt and every field other than name and         *)
(* updatedAt, gains and loses no field, and its updatedAt does not move    *)
(* backwards; a metadata record that exists after the step bears the id of *)
(* its key.                                                                *)
C11_MetadataStep ==
  \A id \in Ids :
    LET before == StoredMetadata(kv, id)
        after == StoredMetadata(kv', id)
    IN /\ kv'[MetadataKey(id)] # Null =>
            after.id = Str(id) /\ after.createdAt.v <= after.updatedAt.v
       /\ kv[MetadataKey(id)] # Null /\ kv'[MetadataKey(id)] # Null =>
            /\ after.id = before.id
            /\ after.createdAt = before.createdAt
            /\ DOMAIN after = DOMAIN before
            /\ \A f \in DOMAIN before \ {"name", "updatedAt"} : after[f] = before[f]
            /\ after.updatedAt.v >= before.updatedAt.v

(* C11: with requests handled one at a time while time passes, from its    *)
(* create on the metadata record of an id keeps the id and createdAt the   *)
(* create wrote, through every save and rename; a save or rename replaces  *)
(* only name and updatedAt, and updatedAt never moves backwards.           *)
C11_CreatedAtAndIdKept == [][C11_MetadataStep]_vars

(* A rename has been answered 204 at a later time than the create: the     *)
(* record bears the new name, the createdAt of the create and a later      *)
(* updatedAt.                                                              *)
C11_Witness ==
  \E p \in Procs : \E id \in Ids :
    /\ Done(p) /\ OnItem(p, "PATCH", id) /\ resp[p].status = 204
    /\ kv[MetadataKey(id)] # Null
    /\ StoredMetadata(kv, id).id = Str(id)
    /\ StoredMetadata(kv, id).name = Str("B")
    /\ StoredMetadata(kv, id).createdAt = IsoTime(0)
    /\ StoredMetadata(kv, id).updatedAt = IsoTime(1)

(* C12: a PATCH that is answered 204 was sent to a canvas that had both    *)
(* records; afterwards the name of the metadata record and the             *)
(* appState.name of the data record are the submitted name, the metadata   *)
(* keeps its id and createdAt, the data record keeps every field other     *)
(* than appState, its appState keeps every field other than name, and the  *)
(* records of the other ids are as before. A PATCH with a name is answered *)
(* 204 whenever both records of the id hold a truthy value.                *)
C12_RenameRenamesBoth ==
  \A p \in Procs : \A id \in Ids :
    Done(p) /\ OnItem(p, "PATCH", id) =>
      LET metadataBefore == StoredMetadata(snap[p], id)
          dataBefore == StoredData(snap[p], id)
          appStateBefore == Spread(Prop(Spread(dataBefore), "appState"))
          metadata == StoredMetadata(kv, id)
          data == StoredData(kv, id)
      IN /\ resp[p].status = 204 =>
              /\ snap[p][MetadataKey(id)] # Null /\ snap[p][DataKey(id)] # Null
              /\ metadata.name = req[p].body.json.name
              /\ data.appState.name = req[p].body.json.name
              /\ metadata.id = metadataBefore.id
              /\ metadata.createdAt = metadataBefore.createdAt
              /\ DOMAIN data = DOMAIN dataBefore \cup {"appState"}
              /\ \A f \in DOMAIN dataBefore \ {"appState"} : data[f] = dataBefore[f]
              /\ DOMAIN data.appState = DOMAIN appStateBefore \cup {"name"}
              /\ \A f \in DOMAIN appStateBefore \ {"name"} :
                    data.appState[f] = appStateBefore[f]
              /\ \A k \in KeySet : k[2] # id => kv[k] = snap[p][k]
         /\ /\ req[p].body.ok
            /\ Truthy(Prop(Spread(req[p].body.json), "name"))
            /\ Truthy(metadataBefore) /\ Truthy(dataBefore)
            => resp[p].status = 204

(* A rename to "B" of a canvas saved with appState name "A" has been       *)
(* answered 204: both records bear "B" and the data keeps its elements and *)
(* the zoom of its appState.                                               *)
C12_Witness ==
  \E p \in Procs : \E id \in Ids :
    /\ Done(p) /\ OnItem(p, "PATCH", id) /\ resp[p].status = 204
    /\ req[p].body = Stringify([t |-> "object", name |-> Str("B")])
    /\ StoredData(snap[p], id) = Canvas(AppState(Str("A")))
    /\ StoredMetadata(kv, id).name = Str("B")
    /\ StoredData(kv, id) = Canvas(AppState(Str("B")))

(* What C13 says of a PUT answered 204 whose metadata is to bear name: the *)
(* data record is the submitted body, the metadata bears that name and     *)
(* keeps its id and createdAt, and the records of the other ids are as     *)
(* before.                                                                 *)
SavedAs(p, id, name) ==
  /\ snap[p][MetadataKey(id)] # Null
  /\ StoredData(kv, id) = ParseJson(req[p].body)
  /\ StoredMetadata(kv, id).name = name
  /\ StoredMetadata(kv, id).id = StoredMetadata(snap[p], id).id
  /\ StoredMetadata(kv, id).createdAt = StoredMetadata(snap[p], id).createdAt
  /\ \A k \in KeySet : k[2] # id => kv[k] = snap[p][k]

(* C13 as stated: after a PUT answered 204 the data record is the body and *)
(* the metadata name is the body's appState.name when the body carries     *)
(* one, and the name the metadata had before otherwise.                    *)
C13_SaveNamedWhenPresent ==
  \A p \in Procs : \A id \in Ids :
    Done(p) /\ OnItem(p, "PUT", id) /\ resp[p].status = 204 =>
      SavedAs(p, id, IF SubmittedName(req[p].body) # Undefined
                     THEN SubmittedName(req[p].body)
                     ELSE StoredMetadata(snap[p], id).name)

(* C13 amended: a PUT on an id that has metadata is answered 204 when its  *)
(* body is a JSON value other than null, and 500 with nothing written when *)
(* it is null or no JSON text; after a PUT answered 204 the data record is *)
(* the body, and the metadata name is the body's appState.name when that   *)
(* is a non-empty string and the name the metadata had before otherwise    *)
(* (also for an appState.name that is present and empty).                  *)
C13_SaveNamedWhenNonEmpty ==
  \A p \in Procs : \A id \in Ids :
    Done(p) /\ OnItem(p, "PUT", id) =>
      /\ resp[p].status = 204 =>
           SavedAs(p, id, IF SubmittedName(req[p].body) \notin {Undefined, Str("")}
                          THEN SubmittedName(req[p].body)
                          ELSE StoredMetadata(snap[p], id).name)
      /\ snap[p][MetadataKey(id)] # Null =>
           IF req[p].body.ok /\ req[p].body.json # Null
           THEN resp[p].status = 204
           ELSE resp[p].status = 500 /\ kv = snap[p]

(* A save whose appState has an empty name, of a canvas renamed to "B",    *)
(* has been answered 204: the data is the body and the metadata still      *)
(* bears "B".                                                              *)
C13_Witness ==
  \E p \in Procs : \E id \in Ids :
    /\ Done(p) /\ OnItem(p, "PUT", id) /\ resp[p].status = 204
    /\ req[p].body = Stringify(Canvas(AppState(Str(""))))
    /\ StoredMetadata(snap[p], id).name = Str("B")
    /\ StoredMetadata(kv, id).name = Str("B")
    /\ StoredData(kv, id) = Canvas(AppState(Str("")))

(* The request in slot p is GET /api/canvases. *)
OnCollection(p, method) ==
  req[p].method = method /\ req[p].path = <<"", "api", "canvases">>

(* The ids that have a metadata record in a store. *)
MetadataIds(store) == {id \in Ids : store[MetadataKey(id)] # Null}

(* C14: a GET /api/canvases, handled while DELETE requests run alongside,  *)
(* is answered 200 with a JSON array and has issued no put or delete.      *)
(* Every entry is a metadata record as it was stored when the request      *)
(* arrived, never null; no canvas appears twice; every canvas that still   *)
(* has metadata when the response is ready appears, and no canvas appears  *)
(* that had none at arrival. Hence the array is exactly the stored         *)
(* metadata when nothing was deleted meanwhile, [] when there is none, and *)
(* a canvas deleted between the listing and its fetch is left out.         *)
C14_ListReturnsStoredMetadata ==
  \A p \in Procs :
    Done(p) /\ OnCollection(p, "GET") =>
      /\ resp[p].status = 200
      /\ <<"Content-Type", "application/json">> \in resp[p].headers
      /\ Writes(p) = {}
      /\ resp[p].body.t = "text"
      /\ ParseJson(resp[p].body).t = "array"
      /\ LET items == ParseJson(resp[p].body).items IN
         /\ \A i \in DOMAIN items :
              /\ items[i].t = "object"
              /\ "id" \in DOMAIN items[i]
              /\ items[i].id.v \in MetadataIds(snap[p])
              /\ items[i] = StoredMetadata(snap[p], items[i].id.v)
         /\ \A i, j \in DOMAIN items : items[i].id = items[j].id => i = j
         /\ \A id \in MetadataIds(kv) : \E i \in DOMAIN items : items[i].id.v = id

(* A listing has been answered 200 with one canvas while the metadata of   *)
(* another, listed and then fetched by the same request, had been deleted  *)
(* in between by the request of the other slot.                            *)
C14_Witness ==
  \E p \in Procs : \E id \in Ids :
    /\ Done(p) /\ OnCollection(p, "GET") /\ resp[p].status = 200
    /\ \E i \in DOMAIN ops[p] : ops[p][i] = <<"get", MetadataKey(id)>>
    /\ Len(ParseJson(resp[p].body).items) = 1
    /\ ParseJson(resp[p].body).items[1].id # Str(id)
    /\ \E q \in Procs \ {p} : OnItem(q, "DELETE", id)

(* C15: with the store calls of concurrent requests interleaving and      *)
(* every store call succeeding, whenever no request is in flight every     *)
(* data record has a metadata record of the same id.                       *)
C15_NoLoneDataAtRest ==
  (\A p \in Procs : ~InFlight(p)) =>
    \A id \in Ids : kv[DataKey(id)] # Null => kv[MetadataKey(id)] # Null

(* The request in slot p has writes to the records of id ahead: it is a   *)
(* create of id, or a save or rename of id that has passed its existence   *)
(* checks.                                                                 *)
Armed(p, id) ==
  /\ pc[p] \in {"create_put_metadata", "create_put_data", "save_put_metadata",
                "save_put_data", "rename_put_metadata", "rename_put_data"}
  /\ loc[p].id = id

(* The canvas of id, once created, is deleted and no request that was in   *)
(* flight when it was deleted still has writes to it ahead.                *)
Gone(id) ==
  /\ id \in issued
  /\ kv[MetadataKey(id)] = Null /\ kv[DataKey(id)] = Null
  /\ \A p \in Procs : ~Armed(p, id)

(* C19, one step: a canvas that is gone stays gone, whatever request       *)
(* arrives or proceeds; and a save or rename that arrived when its canvas  *)
(* had been created and deleted is answered 404 and has issued no put or   *)
(* delete.                                                                 *)
C19_Step ==
  \A id \in Ids :
    /\ Gone(id) => Gone(id)'
    /\ \A p \in Procs :
         /\ (Done(p) /\ (OnItem(p, "PUT", id) \/ OnItem(p, "PATCH", id)))'
         /\ id \in issued
         /\ snap'[p][MetadataKey(id)] = Null /\ snap'[p][DataKey(id)] = Null
         => resp'[p].status = 404 /\ Writes(p)' = {}

(* C19: once the canvas of a created id has been deleted, with no request  *)
(* in flight that still has writes to it ahead, no save, rename, create,   *)
(* list, load or delete makes a metadata or data record of that id exist   *)
(* again: saves and renames are answered 404 without writing, and creates  *)
(* use other ids.                                                          *)
C19_DeletedStaysDeleted == [][C19_Step]_vars

(* A save of a canvas that was created and deleted has been answered 404   *)
(* and the canvas is still gone, while another canvas is stored.           *)
C19_Witness ==
  \E p \in Procs : \E id \in Ids :
    /\ Done(p) /\ OnItem(p, "PUT", id) /\ resp[p].status = 404
    /\ snap[p][MetadataKey(id)] = Null /\ snap[p][DataKey(id)] = Null
    /\ Gone(id)
    /\ \E other \in Ids : kv[MetadataKey(other)] # Null /\ kv[DataKey(other)] # Null

(* The store calls the handler of the request in slot p issues when none   *)
(* fails and no existence check stops it.                                  *)
CallsOfHandler(p) ==
  IF OnCollection(p, "POST") THEN 2
  ELSE IF OnCollection(p, "GET") THEN 1 + Cardinality(MetadataIds(snap[p]))
  ELSE IF req[p].method = "GET" THEN 1
  ELSE IF req[p].method = "PUT" THEN 3
  ELSE IF req[p].method = "DELETE" THEN 2
  ELSE 4

(* The last put or delete of key k among the completed store calls of the  *)
(* request in slot p, 0 when there is none.                                *)
LastWrite(p, k) ==
  LET ws == {i \in Writes(p) : ops[p][i][2] = k}
  IN IF ws = {} THEN 0 ELSE CHOOSE i \in ws : \A j \in ws : j <= i

(* C16: a request one of whose store calls failed is answered 500 with the *)
(* error's message as body, after fewer store calls than its handler       *)
(* issues otherwise; every key it had put before the failure still holds a *)
(* record, every key it had deleted is still absent, and every other key   *)
(* is as it was when the request arrived.                                  *)
C16_StoreFailureIs500 ==
  \A p \in Procs :
    StoreFailed(p) =>
      /\ resp[p].status = 500
      /\ resp[p].body = Plain("KV error")
      /\ Len(ops[p]) < CallsOfHandler(p)
      /\ \A k \in KeySet :
           IF LastWrite(p, k) = 0 THEN kv[k] = snap[p][k]
           ELSE IF ops[p][LastWrite(p, k)][1] = "delete" THEN kv[k] = Null
           ELSE kv[k] # Null

(* A create whose second put failed has been answered 500: the metadata    *)
(* record of the new id is in the store and its data record is not.        *)
C16_Witness ==
  \E p \in Procs : \E id \in Ids :
    /\ StoreFailed(p) /\ OnCollection(p, "POST")
    /\ ops[p] = <<(<<"put", MetadataKey(id)>>)>>
    /\ kv[MetadataKey(id)] # Null /\ kv[DataKey(id)] = Null
    /\ snap[p][MetadataKey(id)] = Null

(* C18: within a request every put of a data key follows at once the      *)
(* completed put of the metadata key of the same id, and every delete of a *)
(* data key the completed delete of that metadata key; a request waits for *)
(* its data write only when its metadata write is its latest completed     *)
(* store call. Hence, with store calls that may fail, a create never       *)
(* leaves a data record without metadata under an id that had no record.   *)
C18_MetadataFirst ==
  \A p \in Procs :
    /\ \A i \in Writes(p) :
         ops[p][i][2][1] = "excalidraw-canvas-data:" =>
           /\ i > 1
           /\ ops[p][i - 1] = <<ops[p][i][1], MetadataKey(ops[p][i][2][2])>>
    /\ pc[p] \in {"create_put_data", "save_put_data", "rename_put_data"} =>
         /\ ops[p] # <<>>
         /\ ops[p][Len(ops[p])] = <<"put", MetadataKey(loc[p].id)>>
    /\ pc[p] = "delete_data" =>
         /\ ops[p] # <<>>
         /\ ops[p][Len(ops[p])] = <<"delete", MetadataKey(loc[p].id)>>
    /\ OnCollection(p, "POST") =>
         \A id \in Ids :
           snap[p][MetadataKey(id)] = Null /\ snap[p][DataKey(id)] = Null =>
             (kv[DataKey(id)] # Null => kv[MetadataKey(id)] # Null)

(* A delete whose second store call failed has left the data record of a   *)
(* canvas without metadata, while a create whose second put failed earlier *)
(* has left the metadata record of another id without data.               *)
C18_Witness ==
  \E p \in Procs : \E id, other \in Ids :
    /\ StoreFailed(p) /\ OnItem(p, "DELETE", id)
    /\ ops[p] = <<(<<"delete", MetadataKey(id)>>)>>
    /\ kv[MetadataKey(id)] = Null /\ kv[DataKey(id)] # Null
    /\ kv[MetadataKey(other)] # Null /\ kv[DataKey(other)] = Null

(* C17, one step: the metadata put of a save leaves the metadata record    *)
(* with the name of that request's body, and its data put leaves the data  *)
(* record equal to that body and ends the request with 204, whatever the   *)
(* other request has written; when two saves of the same id have both      *)
(* been answered 204, each of the two records is the one either of them    *)
(* wrote, in any of the four combinations.                                 *)
C17_Step ==
  /\ \A p \in Procs : \A id \in Ids :
       /\ pc[p] = "save_put_metadata" /\ pc'[p] = "save_put_data" /\ loc[p].id = id
          => StoredMetadata(kv', id).name = SubmittedName(req[p].body)
       /\ pc[p] = "save_put_data" /\ pc'[p] = "done" /\ loc[p].id = id
          => /\ StoredData(kv', id) = ParseJson(req[p].body)
             /\ resp'[p].status = 204
  /\ \A id \in Ids :
       (\A p \in Procs : Done(p) /\ OnItem(p, "PUT", id) /\ resp[p].status = 204)' =>
         /\ StoredData(kv', id) \in {ParseJson(req'[p].body) : p \in Procs}
         /\ StoredMetadata(kv', id).name \in {SubmittedName(req'[p].body) : p \in Procs}

(* C17: concurrent saves of one id are last-write-wins on each key         *)
(* separately.                                                             *)
C17_LastWriteWinsPerKey == [][C17_Step]_vars

(* Two saves of the same canvas have both been answered 204 and the store  *)
(* holds the metadata of one with the data of the other: the metadata name *)
(* is "A" and the appState.name of the data is "C".                        *)
C17_Witness ==
  \E id \in Ids :
    /\ \A p \in Procs : Done(p) /\ OnItem(p, "PUT", id) /\ resp[p].status = 204
    /\ StoredMetadata(kv, id).name = Str("A")
    /\ StoredData(kv, id) = Canvas(AppState(Str("C")))

(* C20: with requests handled one at a time and every store call          *)
(* succeeding, whenever no request is in flight, every canvas whose data   *)
(* record has a non-empty appState.name has a metadata record whose name   *)
(* is that appState.name.                                                  *)
C20_NamesAgree ==
  (\A p \in Procs : ~InFlight(p)) =>
    \A id \in Ids :
      /\ kv[DataKey(id)] # Null
      /\ SubmittedName(kv[DataKey(id)]) \notin {Undefined, Str("")}
      => /\ kv[MetadataKey(id)] # Null
         /\ StoredMetadata(kv, id).name = SubmittedName(kv[DataKey(id)])

(* A save named "A" of a canvas that had been renamed to "B" has been      *)
(* answered 204: both records bear "A".                                    *)
C20_Witness ==
  \E p \in Procs : \E id \in Ids :
    /\ Done(p) /\ OnItem(p, "PUT", id) /\ resp[p].status = 204
    /\ StoredMetadata(snap[p], id).name = Str("B")
    /\ SubmittedName(snap[p][DataKey(id)]) = Str("B")
    /\ StoredMetadata(kv, id).name = Str("A")
    /\ SubmittedName(kv[DataKey(id)]) = Str("A")

====
